---- MODULE Spec2Model ----
(***************************************************************************)
(* km3db: the session/credential resolution and HTTP gateway of            *)
(* km3db/core.py (DBManager, on_whitelisted_host) and the stream catalog,  *)
(* result decoding and CLB map of km3db/tools.py (tonamedtuples, StreamDS, *)
(* CLBMap), as state machines over Python values.                          *)
(***************************************************************************)
EXTENDS Integers, Sequences, FiniteSets, TLC

VARIABLES
    env,              \* what the process sees outside itself: DNS, ident.me,
                      \* os.environ, the cookie file, the tty, the login endpoint
    _session_cookie,  \* DBManager._session_cookie, per DBManager instance
    last,             \* the latest call: what it returned or raised, and its I/O
    sds,              \* the StreamDS object
    clb               \* the CLBMap object

vars == <<env, _session_cookie, last, sds, clb>>

(***************************************************************************)
(* Bounds of the model.                                                    *)
(***************************************************************************)
NumDB == 2            \* DBManager instances alive in the process

DBs == 1..NumDB

(***************************************************************************)
(* Python values.  A str and an int are different values even when they    *)
(* print alike, so every value carries its type.                           *)
(***************************************************************************)
None == [t |-> "None"]
Str(s) == [t |-> "str", v |-> s]
IntV(n) == [t |-> "int", n |-> n]

\* Python's == on the values of the model
PyEq(a, b) == a.t = b.t /\ a = b

\* bool(x): None, "" and 0 and the empty list are falsy
Truthy(x) ==
    CASE x.t = "None" -> FALSE
      [] x.t = "str" -> Len(x.v) > 0
      [] x.t = "int" -> x.n # 0
      [] x.t = "list" -> Len(x.v) > 0
      [] OTHER -> TRUE

(***************************************************************************)
(* str primitives, character by character.                                 *)
(***************************************************************************)
Ch(s, i) == SubSeq(s, i, i)

Digits == {"0", "1", "2", "3", "4", "5", "6", "7", "8", "9"}
UpperAlphabet == "ABCDEFGHIJKLMNOPQRSTUVWXYZ"
LowerAlphabet == "abcdefghijklmnopqrstuvwxyz"
LowerLetters == {Ch(LowerAlphabet, i) : i \in 1..26}
UpperLetters == {Ch(UpperAlphabet, i) : i \in 1..26}
Whitespace == {" ", "\t", "\n", "\r", "\f"}

Max(S) == CHOOSE x \in S : \A y \in S : y <= x
Min(S) == CHOOSE x \in S : \A y \in S : x <= y
Last(seq) == seq[Len(seq)]

\* s.startswith(p)
StartsWith(s, p) == Len(p) <= Len(s) /\ SubSeq(s, 1, Len(p)) = p

\* the indices at which sep occurs in s
Occurrences(s, sep) ==
    {i \in 1..(Len(s) - Len(sep) + 1) : SubSeq(s, i, i + Len(sep) - 1) = sep}

\* s.split(sep): the pieces between the occurrences of sep, left to right
RECURSIVE Split(_, _)
Split(s, sep) ==
    LET occ == Occurrences(s, sep)
    IN  IF occ = {} THEN <<s>>
        ELSE LET i == Min(occ)
             IN  <<SubSeq(s, 1, i - 1)>> \o Split(SubSeq(s, i + Len(sep), Len(s)), sep)

\* s.strip(): leading and trailing whitespace removed
Strip(s) ==
    LET keep == {i \in 1..Len(s) : Ch(s, i) \notin Whitespace}
    IN  IF keep = {} THEN "" ELSE SubSeq(s, Min(keep), Max(keep))

\* s.split(): the maximal runs of non-whitespace characters
RECURSIVE SplitWS(_)
SplitWS(s) ==
    LET keep == {i \in 1..Len(s) : Ch(s, i) \notin Whitespace}
    IN  IF keep = {} THEN <<>>
        ELSE LET b == Min(keep)
                 ws == {i \in b..Len(s) : Ch(s, i) \in Whitespace}
                 e == IF ws = {} THEN Len(s) + 1 ELSE Min(ws)
             IN  <<SubSeq(s, b, e - 1)>> \o SplitWS(SubSeq(s, e, Len(s)))

LowerCh(c) ==
    IF c \in UpperLetters
    THEN Ch(LowerAlphabet, CHOOSE i \in 1..26 : Ch(UpperAlphabet, i) = c)
    ELSE c

UpperCh(c) ==
    IF c \in LowerLetters
    THEN Ch(UpperAlphabet, CHOOSE i \in 1..26 : Ch(LowerAlphabet, i) = c)
    ELSE c

\* s.lower()
RECURSIVE Lower(_)
Lower(s) == IF Len(s) = 0 THEN "" ELSE LowerCh(Head(s)) \o Lower(Tail(s))

\* s.capitalize(): first character upper-cased, the rest lower-cased
Capitalize(s) == IF Len(s) = 0 THEN "" ELSE UpperCh(Head(s)) \o Lower(Tail(s))

(***************************************************************************)
(* core.py: module constants.                                              *)
(***************************************************************************)
BASE_URL == "https://km3netdbweb.in2p3.fr"

\* the keys of SESSION_COOKIES in the order the dict literal lists them,
\* which is the order .items() yields them
Hosts == <<"lyon", "jupyter", "gitlab">>

SESSION_COOKIES(host) ==
    CASE host = "lyon" -> "_kmcprod_134.158_lyo7783844001343100343mcprod1223user"
      [] host = "jupyter" -> "_jupyter-km3net_131.188.161.143_d9fe89a1568a49a5ac03bdf15d93d799"
      [] host = "gitlab" -> "_gitlab-km3net_131.188.161.155_f835d56ca6d946efb38324d59e040761"

(***************************************************************************)
(* _cookie_sid_pattern = r'_[a-z0-9-]+_(\d{1,3}.){1,3}\d{1,3}_[a-z0-9]+'   *)
(* used with .match(): the pattern must match a prefix of the string.      *)
(* Each operator maps the set of positions the match may have reached to   *)
(* the set it may reach after one more element of the pattern.             *)
(***************************************************************************)
\* a literal character
ReLit(s, P, c) == {p + 1 : p \in {q \in P : q <= Len(s) /\ Ch(s, q) = c}}

\* '.': any character but a newline
ReAny(s, P) == {p + 1 : p \in {q \in P : q <= Len(s) /\ Ch(s, q) # "\n"}}

\* between lo and hi characters of the class cls
ReRun(s, P, cls, lo, hi) ==
    {q \in 1..(Len(s) + 1) :
        \E p \in P : /\ q - p >= lo
                     /\ q - p <= hi
                     /\ \A k \in p..(q - 1) : Ch(s, k) \in cls}

\* (\d{1,3}.)
ReGroup(s, P) == ReAny(s, ReRun(s, P, Digits, 1, 3))

CookieSidMatch(s) ==
    LET p1 == ReLit(s, {1}, "_")
        p2 == ReRun(s, p1, LowerLetters \cup Digits \cup {"-"}, 1, Len(s))
        p3 == ReLit(s, p2, "_")
        g1 == ReGroup(s, p3)
        g2 == ReGroup(s, g1)
        g3 == ReGroup(s, g2)
        p4 == ReRun(s, g1 \cup g2 \cup g3, Digits, 1, 3)
        p5 == ReLit(s, p4, "_")
        p6 == ReRun(s, p5, LowerLetters \cup Digits, 1, Len(s))
    IN  p6 # {}

(***************************************************************************)
(* Outcomes of calls.  A call either returns a value or raises; ev is the  *)
(* I/O it performed, in order.                                             *)
(***************************************************************************)
Raise(exc) == [t |-> "raise", v |-> exc]
Returned(x, ev) == [ret |-> x, raised |-> "none", ev |-> ev]
Raised(exc, ev) == [ret |-> None, raised |-> exc, ev |-> ev]

(***************************************************************************)
(* on_whitelisted_host(name).  env.localIp is what                         *)
(* socket.gethostbyname(socket.gethostname()) gives, env.refIp what        *)
(* socket.gethostbyname("jupyter.km3net.de") gives, env.identMe what       *)
(* urlopen("https://ident.me").read().decode("utf8") gives: a str, or the  *)
(* exception the call raises.                                              *)
(***************************************************************************)
on_whitelisted_host(name, e) ==
    CASE name = "lyon" ->
            IF e.localIp.t = "raise"
            THEN Returned(FALSE, <<"gethostbyname:local">>)
            ELSE Returned(StartsWith(e.localIp.v, "134.158."), <<"gethostbyname:local">>)
      [] name = "jupyter" ->
            IF e.localIp.t = "raise"
            THEN Returned(FALSE, <<"gethostbyname:local">>)
            \* the reference lookup is outside the try block
            ELSE IF e.refIp.t = "raise"
            THEN Raised(e.refIp.v, <<"gethostbyname:local", "gethostbyname:jupyter.km3net.de">>)
            ELSE Returned(e.localIp.v = e.refIp.v,
                          <<"gethostbyname:local", "gethostbyname:jupyter.km3net.de">>)
      [] name = "gitlab" ->
            IF e.identMe.t = "raise"
            THEN Raised(e.identMe.v, <<"urlopen:https://ident.me">>)
            ELSE Returned(e.identMe.v = "131.188.161.155", <<"urlopen:https://ident.me">>)
      [] OTHER -> Returned(FALSE, <<>>)

(***************************************************************************)
(* DBManager.__init__: os.path.join(self._db_url, 'home.htm')              *)
(***************************************************************************)
PathJoin(a, b) ==
    IF Len(a) = 0 \/ Ch(a, Len(a)) = "/" THEN a \o b ELSE a \o "/" \o b

_login_url == PathJoin(BASE_URL, "home.htm")

(***************************************************************************)
(* DBManager._request_session_cookie.  env.username / env.password are     *)
(* os.getenv's results, env.cookieFile the content of COOKIE_FILENAME      *)
(* (None when the file does not exist), env.typedUser / env.typedPw what   *)
(* the user types at the prompts, env.loginBody the body of the login      *)
(* response or the exception urlopen raises.                               *)
(***************************************************************************)
\* _request_session_cookie without the pattern test on the login response
_request_session_cookie_unvalidated(e) ==
    LET ev0 == <<"getenv:KM3NET_DB_USERNAME", "getenv:KM3NET_DB_PASSWORD",
                 "exists:cookiefile">>
    IN  IF e.cookieFile.t # "None"
        THEN Returned(Str(Strip(Last(Split(e.cookieFile.v, "\t")))),
                      ev0 \o <<"read:cookiefile">>)
        ELSE LET askUser == e.username.t = "None"
                 askPw == e.password.t = "None"
                 username == IF askUser THEN e.typedUser ELSE e.username.v
                 password == IF askPw THEN e.typedPw ELSE e.password.v
                 target_url == _login_url \o "?usr=" \o username
                                  \o "&pwd=" \o password \o "&persist=y"
                 ev1 == ev0 \o (IF askUser THEN <<"input:username">> ELSE <<>>)
                            \o (IF askPw THEN <<"getpass:password">> ELSE <<>>)
                            \o <<"urlopen:" \o target_url>>
             IN  IF e.loginBody.t = "raise"
                 THEN Raised(e.loginBody.v, ev1)
                 ELSE Returned(Str(Last(Split(e.loginBody.v, "sid="))), ev1)

_request_session_cookie(e) ==
    LET ev0 == <<"getenv:KM3NET_DB_USERNAME", "getenv:KM3NET_DB_PASSWORD",
                 "exists:cookiefile">>
    IN  IF e.cookieFile.t # "None"
        THEN Returned(Str(Strip(Last(Split(e.cookieFile.v, "\t")))),
                      ev0 \o <<"read:cookiefile">>)
        ELSE LET askUser == e.username.t = "None"
                 askPw == e.password.t = "None"
                 username == IF askUser THEN e.typedUser ELSE e.username.v
                 password == IF askPw THEN e.typedPw ELSE e.password.v
                 target_url == _login_url \o "?usr=" \o username
                                  \o "&pwd=" \o password \o "&persist=y"
                 ev1 == ev0 \o (IF askUser THEN <<"input:username">> ELSE <<>>)
                            \o (IF askPw THEN <<"getpass:password">> ELSE <<>>)
                            \o <<"urlopen:" \o target_url>>
             IN  IF e.loginBody.t = "raise"
                 THEN Raised(e.loginBody.v, ev1)
                 ELSE LET cookie == Last(Split(e.loginBody.v, "sid="))
                      IN  IF ~CookieSidMatch(cookie)
                          THEN Returned(None, ev1 \o <<"log.critical">>)
                          ELSE Returned(Str(cookie), ev1)

(***************************************************************************)
(* DBManager.session_cookie (property).  The for loop has no break, so its *)
(* else clause runs whenever the loop ends without an exception.  The      *)
(* result also carries the new value of self._session_cookie.              *)
(***************************************************************************)
RECURSIVE WhitelistLoop(_, _, _, _)
WhitelistLoop(i, cookie, ev, e) ==
    IF i > Len(Hosts)
    THEN [cookie |-> cookie, raised |-> "none", ev |-> ev]
    ELSE LET w == on_whitelisted_host(Hosts[i], e)
         IN  IF w.raised # "none"
             THEN [cookie |-> cookie, raised |-> w.raised, ev |-> ev \o w.ev]
             ELSE WhitelistLoop(i + 1,
                                IF w.ret THEN Str(SESSION_COOKIES(Hosts[i])) ELSE cookie,
                                ev \o w.ev, e)

\* session_cookie without the `is None` test: every read resolves again
session_cookie_uncached(cached, e) ==
    LET w == WhitelistLoop(1, cached, <<>>, e)
    IN  IF w.raised # "none"
        THEN [cookie |-> w.cookie, ret |-> None, raised |-> w.raised, ev |-> w.ev]
        ELSE LET q == _request_session_cookie(e)
             IN  IF q.raised # "none"
                 THEN [cookie |-> w.cookie, ret |-> None, raised |-> q.raised,
                       ev |-> w.ev \o q.ev]
                 ELSE [cookie |-> q.ret, ret |-> q.ret, raised |-> "none",
                       ev |-> w.ev \o q.ev]

session_cookie(cached, e) ==
    IF cached.t # "None"
    THEN [cookie |-> cached, ret |-> cached, raised |-> "none", ev |-> <<>>]
    ELSE LET w == WhitelistLoop(1, cached, <<>>, e)
         IN  IF w.raised # "none"
             THEN [cookie |-> w.cookie, ret |-> None, raised |-> w.raised, ev |-> w.ev]
             ELSE LET q == _request_session_cookie(e)
                  IN  IF q.raised # "none"
                      THEN [cookie |-> w.cookie, ret |-> None, raised |-> q.raised,
                            ev |-> w.ev \o q.ev]
                      ELSE [cookie |-> q.ret, ret |-> q.ret, raised |-> "none",
                            ev |-> w.ev \o q.ev]

(***************************************************************************)
(* urllib's unquote: %XX escapes replaced by the character they encode.    *)
(* The table holds the escapes that occur in the URLs of the model.        *)
(***************************************************************************)
UnquoteTable == <<<<"%20", " ">>, <<"%26", "&">>, <<"%2F", "/">>, <<"%3D", "=">>,
                  <<"%3F", "?">>>>

RECURSIVE unquote(_)
unquote(s) ==
    IF Len(s) = 0 THEN ""
    ELSE LET hit == {i \in 1..Len(UnquoteTable) : StartsWith(s, UnquoteTable[i][1])}
         IN  IF hit # {}
             THEN UnquoteTable[Min(hit)][2] \o unquote(SubSeq(s, 4, Len(s)))
             ELSE Head(s) \o unquote(Tail(s))

(***************************************************************************)
(* DBManager.get(url, default).  o is what self.opener.open(target_url)    *)
(* and f.read() do.  DBManager defines no attribute `opener`: on an        *)
(* instance as DBManager.__init__ leaves it, the lookup raises             *)
(* AttributeError before anything is sent.  The other outcomes are those   *)
(* of an urllib opener (build_opener is imported for one), for an instance *)
(* that has been given the attribute.  get never reads session_cookie.     *)
(***************************************************************************)
\* DBManager.get sending the request a second time after an HTTP error
DBManager_get_retrying(url, default, o) ==
    LET target_url == BASE_URL \o "/" \o unquote(url)
        open == <<"open:" \o target_url>>
    IN  CASE o.kind = "AttributeError" -> Raised("AttributeError", <<>>)
          [] o.kind = "HTTPError" ->
                Returned(default, open \o <<"log.error:HTTP error">> \o open
                                       \o <<"log.error:HTTP error">>)
          [] o.kind = "URLError" -> Raised("URLError", open)
          [] o.kind = "IncompleteRead" ->
                Returned(Str(o.body), open \o <<"read", "log.error:Incomplete data">>)
          [] o.kind = "UnicodeDecodeError" -> Raised("UnicodeDecodeError", open \o <<"read">>)
          [] o.kind = "ok" -> Returned(Str(o.body), open \o <<"read">>)

DBManager_get(url, default, o) ==
    LET target_url == BASE_URL \o "/" \o unquote(url)
        open == <<"open:" \o target_url>>
    IN  CASE o.kind = "AttributeError" -> Raised("AttributeError", <<>>)
          [] o.kind = "HTTPError" -> Returned(default, open \o <<"log.error:HTTP error">>)
          [] o.kind = "URLError" -> Raised("URLError", open)
          [] o.kind = "IncompleteRead" ->
                Returned(Str(o.body), open \o <<"read", "log.error:Incomplete data">>)
          [] o.kind = "UnicodeDecodeError" -> Raised("UnicodeDecodeError", open \o <<"read">>)
          [] o.kind = "ok" -> Returned(Str(o.body), open \o <<"read">>)

\* what the opener and the server may do, given the bodies the server may send
OpenOutcomes(bodies) ==
    {[kind |-> k, body |-> ""] : k \in {"AttributeError", "HTTPError", "URLError",
                                        "UnicodeDecodeError"}}
    \cup {[kind |-> k, body |-> b] : k \in {"ok", "IncompleteRead"}, b \in bodies}

(***************************************************************************)
(* The environments of the model.                                          *)
(***************************************************************************)
LocalIps == {Raise("gaierror"), Str("134.158.7.7"), Str("131.188.161.143"), Str("10.0.0.5")}
RefIps == {Raise("gaierror"), Str("131.188.161.143")}
IdentMes == {Raise("URLError"), Str("131.188.161.155"), Str("10.0.0.5")}
Usernames == {None, Str("envuser")}
Passwords == {None, Str("envpw")}
CookieFiles == {None,
                Str(".in2p3.fr\tTRUE\t/\tTRUE\t0\tsid\t_fileuser_10.0.0.5_f11e\n"),
                Str("not a cookie\n")}
LoginBodies == {Raise("URLError"),
                Str("sid=_loginuser_10.0.0.5_a1b2"),
                Str("<html>Wrong username or password</html>")}

Envs ==
    [localIp : LocalIps, refIp : RefIps, identMe : IdentMes,
     username : Usernames, password : Passwords, cookieFile : CookieFiles,
     typedUser : {"ttyuser"}, typedPw : {"ttypw"}, loginBody : LoginBodies]

\* the environment of a host outside every whitelisted network, with no
\* credentials configured
PlainEnv ==
    [localIp |-> Str("10.0.0.5"), refIp |-> Str("131.188.161.143"),
     identMe |-> Str("10.0.0.5"), username |-> None, password |-> None,
     cookieFile |-> None, typedUser |-> "ttyuser", typedPw |-> "ttypw",
     loginBody |-> Str("sid=_loginuser_10.0.0.5_a1b2")]

NoCall == [op |-> "none", db |-> 0, arg |-> <<>>, ret |-> None, raised |-> "none", ev |-> <<>>]

NoStreamDS == [state |-> "none"]
NoCLBMap == [state |-> "none"]

(***************************************************************************)
(* The session and gateway of a process: NumDB DBManager instances, as     *)
(* DBManager.__init__ leaves them, in any environment.                     *)
(***************************************************************************)
Init ==
    /\ env \in Envs
    /\ _session_cookie = [d \in DBs |-> None]
    /\ last = NoCall
    /\ sds = NoStreamDS
    /\ clb = NoCLBMap

\* reading db.session_cookie
SessionCookie(d) ==
    \E r \in {session_cookie(_session_cookie[d], env)} :
        /\ _session_cookie' = [_session_cookie EXCEPT ![d] = r.cookie]
        /\ last' = [op |-> "session_cookie", db |-> d, arg |-> <<>>,
                    ret |-> r.ret, raised |-> r.raised, ev |-> r.ev]
        /\ UNCHANGED <<env, sds, clb>>

Next == \E d \in DBs : SessionCookie(d)

Spec == Init /\ [][Next]_vars

(***************************************************************************)
(* The gateway: db.get(url, default) between reads of db.session_cookie,   *)
(* on a host outside the whitelisted networks.                             *)
(***************************************************************************)
GatewayEnvs ==
    {e \in Envs : /\ e.localIp \in {Str("10.0.0.5"), Str("134.158.7.7")}
                  /\ e.refIp = Str("131.188.161.143")
                  /\ e.identMe = Str("10.0.0.5")
                  /\ e.username = e.password
                  /\ e.cookieFile # Str("not a cookie\n")
                  /\ e.loginBody.t # "raise"}

InitGateway ==
    /\ env \in GatewayEnvs
    /\ _session_cookie = [d \in DBs |-> None]
    /\ last = NoCall
    /\ sds = NoStreamDS
    /\ clb = NoCLBMap

GetUrls == {"streamds", "streamds/runs.txt?detid%3DD1"}
GetDefaults == {None, Str("n/a")}
GetBodies == {"OID\nD1\n"}

\* db.get(url, default)
Get(d) ==
    \E url \in GetUrls, default \in GetDefaults, o \in OpenOutcomes(GetBodies) :
        \E r \in {DBManager_get(url, default, o)} :
            /\ last' = [op |-> "get", db |-> d, arg |-> <<Str(url), default, o.kind>>,
                        ret |-> r.ret, raised |-> r.raised, ev |-> r.ev]
            /\ UNCHANGED <<env, _session_cookie, sds, clb>>

NextGateway ==
    \/ \E d \in DBs : SessionCookie(d)
    \/ \E d \in DBs : Get(d)

SpecGateway == InitGateway /\ [][NextGateway]_vars

(***************************************************************************)
(* tools.py.  Python's order on str: by code point, character by           *)
(* character.  CodeOrder lists the ASCII characters of the model's texts   *)
(* in code-point order.                                                    *)
(***************************************************************************)
CodeOrder ==
    "\t\n\f\r !#$%&()*+,-./0123456789:;<=>?@ABCDEFGHIJKLMNOPQRSTUVWXYZ[]^_abcdefghijklmnopqrstuvwxyz{|}~"

CodeOf(c) == CHOOSE i \in 1..Len(CodeOrder) : Ch(CodeOrder, i) = c

\* a < b on str
StrLess(a, b) ==
    \E i \in 1..(Len(b)) :
        /\ i <= Len(a) + 1
        /\ SubSeq(a, 1, i - 1) = SubSeq(b, 1, i - 1)
        /\ (i = Len(a) + 1 \/ CodeOf(Ch(a, i)) < CodeOf(Ch(b, i)))

(***************************************************************************)
(* collections.namedtuple(typename, field_names): the class is made only   *)
(* from valid names.  An instance keeps its fields in the header's order.  *)
(***************************************************************************)
Keywords ==
    {"and", "as", "assert", "async", "await", "break", "class", "continue", "def",
     "del", "elif", "else", "except", "finally", "for", "from", "global", "if",
     "import", "in", "is", "lambda", "nonlocal", "not", "or", "pass", "raise",
     "return", "try", "while", "with", "yield", "False", "None", "True"}

IsIdentifier(s) ==
    /\ Len(s) > 0
    /\ Head(s) \in LowerLetters \cup UpperLetters \cup {"_"}
    /\ \A i \in 1..Len(s) : Ch(s, i) \in LowerLetters \cup UpperLetters \cup Digits \cup {"_"}

namedtuple_ok(typename, fields) ==
    /\ IsIdentifier(typename) /\ typename \notin Keywords
    /\ \A i \in 1..Len(fields) :
          /\ IsIdentifier(fields[i])
          /\ fields[i] \notin Keywords
          /\ Head(fields[i]) # "_"
    /\ \A i, j \in 1..Len(fields) : fields[i] = fields[j] => i = j

NT(typename, fields, vals) == [t |-> "nt", cls |-> typename, fields |-> fields, v |-> vals]

HasField(nt, f) == \E i \in 1..Len(nt.fields) : nt.fields[i] = f

\* getattr(nt, f), for a field the namedtuple has
Field(nt, f) == nt.v[CHOOSE i \in 1..Len(nt.fields) : nt.fields[i] = f]

PyList(seq) == [t |-> "list", v |-> seq]

(***************************************************************************)
(* sorted(entries, key=lambda s: s.stream): stable, ascending.             *)
(***************************************************************************)
InsertByStream(seq, x) ==
    LET n == Cardinality({i \in 1..Len(seq) :
                             ~StrLess(Field(x, "stream").v, Field(seq[i], "stream").v)})
    IN  SubSeq(seq, 1, n) \o <<x>> \o SubSeq(seq, n + 1, Len(seq))

\* the listing kept in the order the server sent it
Unsorted(seq) == seq

RECURSIVE SortedByStream(_)
SortedByStream(seq) ==
    IF Len(seq) = 0 THEN <<>>
    ELSE InsertByStream(SortedByStream(SubSeq(seq, 1, Len(seq) - 1)), seq[Len(seq)])

(***************************************************************************)
(* tonamedtuples(name, text, sort=False)                                   *)
(***************************************************************************)
NonEmpty(l) == Len(l) > 0

StrList(parts) == [i \in 1..Len(parts) |-> Str(parts[i])]

tonamedtuples(name, text, sort) ==
    IF text.t # "str" THEN Raised("AttributeError", <<>>)
    ELSE LET lines == Split(text.v, "\n")
             header == SplitWS(lines[1])
             fields == [i \in 1..Len(header) |-> Lower(header[i])]
             rows == SelectSeq(Tail(lines), NonEmpty)
             cells == [i \in 1..Len(rows) |-> Split(rows[i], "\t")]
             entries == [i \in 1..Len(rows) |-> NT(name, fields, StrList(cells[i]))]
         IN  IF ~namedtuple_ok(name, fields) THEN Raised("ValueError", <<>>)
             ELSE IF \E i \in 1..Len(rows) : Len(cells[i]) # Len(fields)
             THEN Raised("TypeError", <<>>)
             ELSE IF ~sort THEN Returned(PyList(entries), <<>>)
             ELSE IF Len(rows) > 0 /\ "stream" \notin {fields[i] : i \in 1..Len(fields)}
             THEN Raised("AttributeError", <<>>)
             ELSE Returned(PyList(SortedByStream(entries)), <<>>)

(***************************************************************************)
(* dict / OrderedDict: the <<key, value>> pairs in insertion order.        *)
(* Assigning to a key the dict has keeps the key's place.                  *)
(***************************************************************************)
DictHas(d, k) == \E i \in 1..Len(d) : PyEq(d[i][1], k)
DictGet(d, k) == d[CHOOSE i \in 1..Len(d) : PyEq(d[i][1], k)][2]
DictSet(d, k, x) ==
    IF DictHas(d, k)
    THEN [i \in 1..Len(d) |-> IF PyEq(d[i][1], k) THEN <<d[i][1], x>> ELSE d[i]]
    ELSE Append(d, <<k, x>>)
DictKeys(d) == [i \in 1..Len(d) |-> d[i][1]]
DictValues(d) == [i \in 1..Len(d) |-> d[i][2]]
PyDict(d) == [t |-> "dict", v |-> d]

(***************************************************************************)
(* StreamDS.__getattr__(attr): the callable of a stream of the catalog,    *)
(* with the signature built from the stream's selector lists               *)
(* (inspect.Parameter rejects a name that is no identifier, Signature a    *)
(* name given twice).                                                      *)
(***************************************************************************)
\* the names of a selector list, "-" skipped, as the dict of Parameters
\* keeps them: each (name, kind) once
Selectors(text) ==
    LET parts == Split(text, ",")
        kept == SelectSeq(parts, LAMBDA x : x # "-")
    IN  SelectSeq([i \in 1..Len(kept) |-> [name |-> kept[i], first |-> \A j \in 1..(i - 1) : kept[j] # kept[i]]],
                  LAMBDA r : r.first)

SelectorNames(text) == LET sel == Selectors(text) IN [i \in 1..Len(sel) |-> sel[i].name]

ParameterOk(name) == IsIdentifier(name) /\ name \notin Keywords

\* __getattr__ without the membership test: a callable for any name
StreamDS_getattr_any(streams, attr) ==
    Returned([t |-> "func", stream |-> attr, doc |-> None,
              mandatory |-> <<>>, optional |-> <<>>], <<>>)

StreamDS_getattr(streams, attr) ==
    IF ~DictHas(streams, Str(attr)) THEN Raised("AttributeError", <<>>)
    ELSE LET stream == DictGet(streams, Str(attr))
         IN  IF ~HasField(stream, "description") \/ ~HasField(stream, "mandatory_selectors")
             THEN Raised("AttributeError", <<>>)
             ELSE LET mandatory == SelectorNames(Field(stream, "mandatory_selectors").v)
                  IN  IF \E i \in 1..Len(mandatory) : ~ParameterOk(mandatory[i])
                      THEN Raised("ValueError", <<>>)
                      ELSE IF ~HasField(stream, "optional_selectors")
                      THEN Raised("AttributeError", <<>>)
                      ELSE LET optional == SelectorNames(Field(stream, "optional_selectors").v)
                           IN  IF \/ \E i \in 1..Len(optional) : ~ParameterOk(optional[i])
                                  \/ \E i \in 1..Len(mandatory), j \in 1..Len(optional) :
                                        mandatory[i] = optional[j]
                               THEN Raised("ValueError", <<>>)
                               ELSE Returned([t |-> "func", stream |-> attr,
                                              doc |-> Field(stream, "description"),
                                              mandatory |-> mandatory,
                                              optional |-> optional], <<>>)

(***************************************************************************)
(* Attribute lookup on a StreamDS object, the way Python resolves obj.name:*)
(* the class's property, then the instance's own attributes, then the      *)
(* class's methods, and __getattr__ only when all of these miss.           *)
(***************************************************************************)
StreamDSProperties == {"streams"}
StreamDSMethods ==
    {"__init__", "_update_streams", "__getattr__", "print_streams",
     "_print_stream_parameters", "get", "__doc__", "__module__"}

StreamDS_lookup(obj, name) ==
    IF name \in StreamDSProperties THEN Returned(PyDict(obj._streams), <<>>)
    ELSE IF name = "_default_container" THEN Returned(obj._default_container, <<>>)
    ELSE IF DictHas(obj.attrs, Str(name)) THEN Returned(DictGet(obj.attrs, Str(name)), <<>>)
    ELSE IF name = "_streams" THEN Returned(PyDict(obj._streams), <<>>)
    ELSE IF name = "_db" THEN Returned([t |-> "DBManager"], <<>>)
    ELSE IF name \in StreamDSMethods THEN Returned([t |-> "method", name |-> name], <<>>)
    ELSE StreamDS_getattr(obj._streams, name)

(***************************************************************************)
(* StreamDS._update_streams and StreamDS.__init__(url=None, container).    *)
(* o is what the gateway's request for the catalog does.  The result       *)
(* carries the object when the constructor returns.                        *)
(***************************************************************************)
RECURSIVE UpdateLoop(_, _, _, _)
UpdateLoop(entries, i, streams, attrs) ==
    IF i > Len(entries)
    THEN [raised |-> "none", _streams |-> streams, attrs |-> attrs]
    ELSE LET key == Field(entries[i], "stream")
             streams2 == DictSet(streams, key, entries[i])
             f == StreamDS_getattr(streams2, key.v)
         IN  IF f.raised # "none"
             THEN [raised |-> f.raised, _streams |-> streams2, attrs |-> attrs]
             \* setattr on a property without a setter
             ELSE IF key.v \in StreamDSProperties
             THEN [raised |-> "AttributeError", _streams |-> streams2, attrs |-> attrs]
             ELSE UpdateLoop(entries, i + 1, streams2, DictSet(attrs, key, f.ret))

StreamDS_init(container, o) ==
    LET content == DBManager_get("streamds", None, o)
    IN  IF content.raised # "none"
        THEN [raised |-> content.raised, ev |-> content.ev, obj |-> None]
        ELSE LET parsed == tonamedtuples("Stream", content.ret, TRUE)
             IN  IF parsed.raised # "none"
                 THEN [raised |-> parsed.raised, ev |-> content.ev, obj |-> None]
                 ELSE LET u == UpdateLoop(parsed.ret.v, 1, <<>>, <<>>)
                      IN  IF u.raised # "none"
                          THEN [raised |-> u.raised, ev |-> content.ev, obj |-> None]
                          ELSE [raised |-> "none", ev |-> content.ev,
                                obj |-> [state |-> "ok", _streams |-> u._streams,
                                         attrs |-> u.attrs,
                                         _default_container |-> container,
                                         \* the local `content` of _update_streams
                                         listing |-> content.ret.v]]

(***************************************************************************)
(* topandas(text): km3db.extras.pandas().read_csv(StringIO(text),          *)
(* sep="\t"), a frame whose columns are the header's fields.               *)
(***************************************************************************)
topandas(text) ==
    LET lines == Split(text.v, "\n")
    IN  Returned([t |-> "DataFrame", columns |-> Split(lines[1], "\t"),
                  rows |-> SelectSeq(Tail(lines), NonEmpty)], <<>>)

(***************************************************************************)
(* StreamDS.get(stream, fmt="txt", container=None, **kwargs).  kwargs is   *)
(* the sequence of <<key, value>> pairs; o is what the gateway's request   *)
(* does.                                                                   *)
(***************************************************************************)
RECURSIVE JoinSelectors(_)
JoinSelectors(kwargs) ==
    IF Len(kwargs) = 0 THEN ""
    ELSE "&" \o Head(kwargs)[1] \o "=" \o Head(kwargs)[2] \o JoinSelectors(Tail(kwargs))

\* StreamDS.get without the test for a body that starts with "ERROR"
StreamDS_get_unchecked(obj, stream, fmt, container, kwargs, o) ==
    LET sel == JoinSelectors(kwargs)
        url == "streamds/" \o stream \o "." \o fmt \o "?" \o SubSeq(sel, 2, Len(sel))
        g == DBManager_get(url, None, o)
        data == g.ret
        cont == IF container.t = "None" /\ obj._default_container.t # "None"
                THEN obj._default_container ELSE container
    IN  IF g.raised # "none" THEN g
        ELSE IF ~Truthy(data)
        THEN Returned(None, g.ev \o <<"log.error:No data found at URL '" \o url \o "'.">>)
        ELSE IF PyEq(cont, Str("pd"))
        THEN LET r == topandas(data) IN [r EXCEPT !.ev = g.ev]
        ELSE IF PyEq(cont, Str("nt"))
        THEN LET r == tonamedtuples(Capitalize(stream), data, FALSE) IN [r EXCEPT !.ev = g.ev]
        ELSE Returned(data, g.ev)

\* StreamDS.get deciding on the container of the call alone
StreamDS_get_no_default(obj, stream, fmt, container, kwargs, o) ==
    LET sel == JoinSelectors(kwargs)
        url == "streamds/" \o stream \o "." \o fmt \o "?" \o SubSeq(sel, 2, Len(sel))
        g == DBManager_get(url, None, o)
        data == g.ret
    IN  IF g.raised # "none" THEN g
        ELSE IF ~Truthy(data)
        THEN Returned(None, g.ev \o <<"log.error:No data found at URL '" \o url \o "'.">>)
        ELSE IF StartsWith(data.v, "ERROR")
        THEN Returned(None, g.ev \o <<"log.error:" \o data.v>>)
        ELSE IF PyEq(container, Str("pd"))
        THEN LET r == topandas(data) IN [r EXCEPT !.ev = g.ev]
        ELSE IF PyEq(container, Str("nt"))
        THEN LET r == tonamedtuples(Capitalize(stream), data, FALSE) IN [r EXCEPT !.ev = g.ev]
        ELSE Returned(data, g.ev)

StreamDS_get(obj, stream, fmt, container, kwargs, o) ==
    LET sel == JoinSelectors(kwargs)
        url == "streamds/" \o stream \o "." \o fmt \o "?" \o SubSeq(sel, 2, Len(sel))
        g == DBManager_get(url, None, o)
        data == g.ret
        cont == IF container.t = "None" /\ obj._default_container.t # "None"
                THEN obj._default_container ELSE container
    IN  IF g.raised # "none" THEN g
        ELSE IF ~Truthy(data)
        THEN Returned(None, g.ev \o <<"log.error:No data found at URL '" \o url \o "'.">>)
        ELSE IF StartsWith(data.v, "ERROR")
        THEN Returned(None, g.ev \o <<"log.error:" \o data.v>>)
        ELSE IF PyEq(cont, Str("pd"))
        THEN LET r == topandas(data) IN [r EXCEPT !.ev = g.ev]
        ELSE IF PyEq(cont, Str("nt"))
        THEN LET r == tonamedtuples(Capitalize(stream), data, FALSE) IN [r EXCEPT !.ev = g.ev]
        ELSE Returned(data, g.ev)

\* sds.<name>(**kwargs, container=container): the attribute is looked up and
\* the callable found forwards to self.get
\* the stream callable fetching the catalog listing again before the query
StreamDS_call_refreshing(obj, name, container, kwargs, o) ==
    LET f == StreamDS_lookup(obj, name)
        c == DBManager_get("streamds", None, o)
    IN  IF f.raised # "none" THEN f
        ELSE IF f.ret.t # "func" THEN Raised("TypeError", <<>>)
        ELSE IF c.raised # "none" THEN c
        ELSE LET r == StreamDS_get(obj, f.ret.stream, "txt", container, kwargs, o)
             IN  [r EXCEPT !.ev = c.ev \o r.ev]

StreamDS_call(obj, name, container, kwargs, o) ==
    LET f == StreamDS_lookup(obj, name)
    IN  IF f.raised # "none" THEN f
        ELSE IF f.ret.t # "func" THEN Raised("TypeError", <<>>)
        ELSE IF StreamDS_lookup(obj, "get").ret.t # "method" THEN Raised("TypeError", <<>>)
        ELSE StreamDS_get(obj, f.ret.stream, "txt", container, kwargs, o)

(***************************************************************************)
(* The stream catalog: a StreamDS is constructed from whatever the server  *)
(* lists, then its attributes are read.                                    *)
(***************************************************************************)
MaxRows == 3          \* descriptor rows in a catalog listing

CatalogHeader == "STREAM\tDESCRIPTION\tFORMATS\tMANDATORY_SELECTORS\tOPTIONAL_SELECTORS\n"

CatalogRows ==
    {"runs\tRuns\ttxt\tdetid\trun,runjobid\n",
     "clbmap\tCLB map\ttxt\tdetoid\t-\n",
     "ahrs\tAHRS data\ttxt\tdetid,minrun,maxrun\tupi\n",
     "runs\tRuns again\ttxt\t-\t-\n"}

\* the rows of a listing, in every order the server may send them
RECURSIVE CatalogBodies(_)
CatalogBodies(n) ==
    IF n = 0 THEN {""}
    ELSE LET shorter == CatalogBodies(n - 1)
         IN  shorter \cup {b \o r : b \in shorter, r \in CatalogRows}

CatalogListings ==
    {CatalogHeader \o b : b \in CatalogBodies(MaxRows)} \cup {"", "STREAM\nruns\n"}

Containers == {None, Str("nt"), Str("pd")}

AttrNames == {"runs", "clbmap", "ahrs", "detectors", "get", "streams", "_db"}

InitStreams ==
    /\ env = PlainEnv
    /\ _session_cookie = [d \in DBs |-> None]
    /\ last = NoCall
    /\ sds = NoStreamDS
    /\ clb = NoCLBMap

\* sds = StreamDS(container=container), the first call of the process
Construct(listings, containers) ==
    /\ sds.state = "none"
    /\ last = NoCall
    /\ \E container \in containers, o \in OpenOutcomes(listings) :
          \E r \in {StreamDS_init(container, o)} :
              /\ sds' = IF r.raised = "none" THEN r.obj ELSE sds
              /\ last' = [op |-> "StreamDS", db |-> 0, arg |-> <<container, o>>,
                          ret |-> None, raised |-> r.raised, ev |-> r.ev]
    /\ UNCHANGED <<env, _session_cookie, clb>>

\* sds.<name>
Attr ==
    /\ sds.state = "ok"
    /\ \E name \in AttrNames :
          \E r \in {StreamDS_lookup(sds, name)} :
              last' = [op |-> "getattr", db |-> 0, arg |-> <<Str(name)>>,
                       ret |-> r.ret, raised |-> r.raised, ev |-> r.ev]
    /\ UNCHANGED <<env, _session_cookie, sds, clb>>

NextCatalog ==
    \/ Construct(CatalogListings, {None, Str("nt")})
    \/ Attr

SpecCatalog == InitStreams /\ [][NextCatalog]_vars

(***************************************************************************)
(* Stream queries: StreamDS.get and the stream callables, on a catalog     *)
(* that lists two streams.                                                 *)
(***************************************************************************)
QueryListings ==
    {CatalogHeader \o "runs\tRuns\ttxt\tdetid\trun,runjobid\n"
                   \o "clbmap\tCLB map\ttxt\tdetoid\t-\n"}

StreamNames == {"runs", "detectors"}

StreamBodies ==
    {"", "ERROR: bad param", "OID\tDOM_ID\tFLOOR\nD1\t123\t0", "OID\tDOM_ID\nD1\n"}

QueryKwargs == {<<<<"detid", "D1">>>>}

QueryOutcomes ==
    {o \in OpenOutcomes(StreamBodies) : o.kind \in {"HTTPError", "URLError", "ok"}}

\* sds.get(stream, container=container, **kwargs)
SdsGet ==
    /\ sds.state = "ok"
    /\ \E stream \in StreamNames, container \in Containers, kwargs \in QueryKwargs,
          o \in QueryOutcomes :
          \E r \in {StreamDS_get(sds, stream, "txt", container, kwargs, o)} :
              last' = [op |-> "sds.get", db |-> 0, arg |-> <<Str(stream), container, o>>,
                       ret |-> r.ret, raised |-> r.raised, ev |-> r.ev]
    /\ UNCHANGED <<env, _session_cookie, sds, clb>>

\* sds.<name>(container=container, **kwargs)
SdsCall ==
    /\ sds.state = "ok"
    /\ \E name \in StreamNames, container \in Containers, kwargs \in QueryKwargs,
          o \in QueryOutcomes :
          \E r \in {StreamDS_call(sds, name, container, kwargs, o)} :
              last' = [op |-> "sds.call", db |-> 0, arg |-> <<Str(name), container, o>>,
                       ret |-> r.ret, raised |-> r.raised, ev |-> r.ev]
    /\ UNCHANGED <<env, _session_cookie, sds, clb>>

NextStreams ==
    \/ Construct(QueryListings, Containers)
    \/ SdsGet
    \/ SdsCall

SpecStreams == InitStreams /\ [][NextStreams]_vars

(***************************************************************************)
(* Vocabulary of the claims.                                               *)
(***************************************************************************)
\* the latest call read session_cookie and found the cache empty: the
\* whitelist checks ran
Resolved == last.op = "session_cookie" /\ last.ev # <<>>

\* no whitelist check raises in environment e
WhitelistQuiet(e) == \A i \in 1..Len(Hosts) : on_whitelisted_host(Hosts[i], e).raised = "none"

\* the networks environment e is whitelisted for
WhitelistedHosts(e) ==
    {h \in {Hosts[i] : i \in 1..Len(Hosts)} :
        LET w == on_whitelisted_host(h, e) IN w.raised = "none" /\ w.ret}

\* the I/O of _request_session_cookie
IsCredentialEvent(x) ==
    \/ StartsWith(x, "getenv:")
    \/ StartsWith(x, "exists:")
    \/ StartsWith(x, "read:")
    \/ StartsWith(x, "input:")
    \/ StartsWith(x, "getpass:")
    \/ StartsWith(x, "urlopen:" \o _login_url)

Events(ev) == {ev[i] : i \in 1..Len(ev)}

EnvLoginRequest ==
    "urlopen:" \o _login_url \o "?usr=envuser&pwd=envpw&persist=y"

\* the call sent a request
Opened(ev) == \E x \in Events(ev) : StartsWith(x, "open:")

(***************************************************************************)
(* C1 (as claimed): when the first read of session_cookie finds the host   *)
(* whitelisted for some network, it returns and caches that network's      *)
(* token from SESSION_COOKIES and does none of the I/O of                  *)
(* _request_session_cookie: no getenv, no cookie-file access, no prompt,   *)
(* no login request.                                                       *)
(***************************************************************************)
C1_WhitelistPrecedence ==
    (Resolved /\ WhitelistQuiet(env) /\ WhitelistedHosts(env) # {})
    => /\ last.raised = "none"
       /\ \E h \in WhitelistedHosts(env) : last.ret = Str(SESSION_COOKIES(h))
       /\ _session_cookie[last.db] = last.ret
       /\ \A x \in Events(last.ev) : ~IsCredentialEvent(x)

(***************************************************************************)
(* C2 (as claimed): on a host that is whitelisted for no network the       *)
(* credential sources rank environment > cookie file > prompt: with both   *)
(* KM3NET_DB_USERNAME and KM3NET_DB_PASSWORD set the token comes from a    *)
(* login with those credentials and the cookie file is not read; the file  *)
(* is read only when the environment does not supply both; a prompt is     *)
(* reached only when neither resolves.                                     *)
(***************************************************************************)
C2_CredentialPrecedence ==
    (Resolved /\ WhitelistQuiet(env) /\ WhitelistedHosts(env) = {})
    => LET both == env.username.t # "None" /\ env.password.t # "None"
           evs == Events(last.ev)
       IN  /\ both => (EnvLoginRequest \in evs /\ "read:cookiefile" \notin evs)
           /\ "read:cookiefile" \in evs => ~both
           /\ ("input:username" \in evs \/ "getpass:password" \in evs)
                 => (~both /\ env.cookieFile.t = "None")

(***************************************************************************)
(* C3 (as claimed): in every reachable state each DBManager's cached token *)
(* is empty or matches _cookie_sid_pattern, and so does every value        *)
(* session_cookie returns, whichever source the token came from.           *)
(***************************************************************************)
C3_CachedTokenMatchesPattern ==
    /\ \A d \in DBs : _session_cookie[d].t = "None" \/ CookieSidMatch(_session_cookie[d].v)
    /\ (last.op = "session_cookie" /\ last.raised = "none")
          => (last.ret.t = "None" \/ CookieSidMatch(last.ret.v))

(***************************************************************************)
(* C4 (as claimed): DBManager.get never raises; when the GET fails with an *)
(* HTTP error status or at transport level (DNS, connection) it returns    *)
(* the caller's default.                                                   *)
(***************************************************************************)
C4_GetNeverRaises ==
    last.op = "get"
    => /\ last.raised = "none"
       /\ last.arg[3] \in {"HTTPError", "URLError"} => last.ret = last.arg[2]

(***************************************************************************)
(* C5 (as claimed): a request sent by DBManager.get carries the session    *)
(* token: by the time the GET is sent the token has been resolved through  *)
(* session_cookie, so the instance holds a token or the call itself ran    *)
(* the resolution before opening the URL.                                  *)
(***************************************************************************)
C5_RequestCarriesToken ==
    (last.op = "get" /\ Opened(last.ev))
    => \/ _session_cookie[last.db].t # "None"
       \/ \E i \in 1..Len(last.ev) :
             /\ StartsWith(last.ev[i], "gethostbyname:")
             /\ \A j \in 1..i : ~StartsWith(last.ev[j], "open:")

Tuple(a, b) == [t |-> "tuple", v |-> <<a, b>>]

\* __init__ from the StreamDS(container="nt") call on: s is what that call
\* produced
CLBMap_fetch(det_oid, s, o2) ==
    IF s.raised # "none"
    THEN [raised |-> s.raised, ev |-> s.ev, obj |-> None]
    ELSE LET q == StreamDS_call(s.obj, "clbmap", None, <<<<"detoid", det_oid>>>>, o2)
         IN  IF q.raised # "none"
             THEN [raised |-> q.raised, ev |-> s.ev \o q.ev, obj |-> None]
             ELSE [raised |-> "none", ev |-> s.ev \o q.ev,
                   obj |-> [state |-> "ok", det_oid |-> Str(det_oid),
                            _data |-> q.ret, _by |-> <<>>]]

CLBMap_init(det_oid, o1, o2) ==
    CHOOSE r \in {CLBMap_fetch(det_oid, s, o2) : s \in {StreamDS_init(Str("nt"), o1)}} : TRUE

\* len(clbmap)
CLBMap_len(obj) ==
    IF obj._data.t # "list" THEN [obj |-> obj, ret |-> None, raised |-> "TypeError"]
    ELSE [obj |-> obj, ret |-> IntV(Len(obj._data.v)), raised |-> "none"]

\* the loop of _populate: data[getattr(clb, by)] = clb, a later CLB
\* replacing an earlier one of the same key
RECURSIVE PopulateLoop(_, _, _, _)
PopulateLoop(data, by, i, d) ==
    IF i > Len(data) THEN [d |-> d, raised |-> "none"]
    ELSE IF ~HasField(data[i], by) THEN [d |-> d, raised |-> "AttributeError"]
    ELSE PopulateLoop(data, by, i + 1, DictSet(d, Field(data[i], by), data[i]))

_populate(obj, by) ==
    IF obj._data.t # "list" THEN [obj |-> obj, raised |-> "TypeError"]
    ELSE LET l == PopulateLoop(obj._data.v, by, 1, <<>>)
         IN  IF l.raised # "none" THEN [obj |-> obj, raised |-> l.raised]
             ELSE [obj |-> [obj EXCEPT !._by = DictSet(@, Str(by), PyDict(l.d))],
                   raised |-> "none"]

\* the body shared by the properties upis and dom_ids
CLBMap_index(obj, parameter) ==
    LET p == IF DictHas(obj._by, Str(parameter))
             THEN [obj |-> obj, raised |-> "none"]
             ELSE _populate(obj, parameter)
    IN  IF p.raised # "none" THEN [obj |-> p.obj, ret |-> None, raised |-> p.raised]
        ELSE [obj |-> p.obj, ret |-> DictGet(p.obj._by, Str(parameter)), raised |-> "none"]

upis(obj) == CLBMap_index(obj, "upi")

dom_ids(obj) == CLBMap_index(obj, "domid")

\* the loop of omkeys, writing into the dict already stored in _by
RECURSIVE OmkeyLoop(_, _, _)
OmkeyLoop(vals, i, d) ==
    IF i > Len(vals) THEN [d |-> d, raised |-> "none"]
    ELSE IF ~HasField(vals[i], "du") \/ ~HasField(vals[i], "floor")
    THEN [d |-> d, raised |-> "AttributeError"]
    ELSE OmkeyLoop(vals, i + 1,
                   DictSet(d, Tuple(Field(vals[i], "du"), Field(vals[i], "floor")), vals[i]))

\* omkeys starting from an emptied _by, rebuilding what it needs
omkeys_rebuilding(obj) ==
    LET u == upis([obj EXCEPT !._by = <<<<Str("omkey"), PyDict(<<>>)>>>>])
    IN  IF u.raised # "none" THEN u
        ELSE LET l == OmkeyLoop(DictValues(u.ret.v), 1, <<>>)
                 done == [u.obj EXCEPT !._by = DictSet(@, Str("omkey"), PyDict(l.d))]
             IN  IF l.raised # "none"
                 THEN [obj |-> done, ret |-> None, raised |-> l.raised]
                 ELSE [obj |-> done, ret |-> PyDict(l.d), raised |-> "none"]

omkeys(obj) ==
    IF DictHas(obj._by, Str("omkey"))
    THEN [obj |-> obj, ret |-> DictGet(obj._by, Str("omkey")), raised |-> "none"]
    ELSE LET u == upis([obj EXCEPT !._by = DictSet(@, Str("omkey"), PyDict(<<>>))])
         IN  IF u.raised # "none" THEN u
             ELSE LET l == OmkeyLoop(DictValues(u.ret.v), 1, <<>>)
                      done == [u.obj EXCEPT !._by = DictSet(@, Str("omkey"), PyDict(l.d))]
                  IN  IF l.raised # "none"
                      THEN [obj |-> done, ret |-> None, raised |-> l.raised]
                      ELSE [obj |-> done, ret |-> PyDict(l.d), raised |-> "none"]

\* the loop of base: a CLB enters under its du if clb.floor == 0
RECURSIVE BaseLoop(_, _, _)
BaseLoop(vals, i, d) ==
    IF i > Len(vals) THEN [d |-> d, raised |-> "none"]
    ELSE IF ~HasField(vals[i], "floor") THEN [d |-> d, raised |-> "AttributeError"]
    ELSE IF ~PyEq(Field(vals[i], "floor"), IntV(0)) THEN BaseLoop(vals, i + 1, d)
    ELSE IF ~HasField(vals[i], "du") THEN [d |-> d, raised |-> "AttributeError"]
    ELSE BaseLoop(vals, i + 1, DictSet(d, Field(vals[i], "du"), vals[i]))

\* the rest of base once _by["base"] exists: self._by["base"][du]
BaseLookup(obj, du) ==
    LET d == DictGet(obj._by, Str("base")).v
    IN  IF DictHas(d, du) THEN [obj |-> obj, ret |-> DictGet(d, du), raised |-> "none"]
        ELSE [obj |-> obj, ret |-> None, raised |-> "KeyError"]

base(obj, du) ==
    IF DictHas(obj._by, Str("base")) THEN BaseLookup(obj, du)
    ELSE LET u == upis([obj EXCEPT !._by = DictSet(@, Str("base"), PyDict(<<>>))])
         IN  IF u.raised # "none" THEN u
             ELSE LET l == BaseLoop(DictValues(u.ret.v), 1, <<>>)
                      done == [u.obj EXCEPT !._by = DictSet(@, Str("base"), PyDict(l.d))]
                  IN  IF l.raised # "none"
                      THEN [obj |-> done, ret |-> None, raised |-> l.raised]
                      ELSE BaseLookup(done, du)

(***************************************************************************)
(* A CLBMap in use: it is constructed for a detector from what the server  *)
(* answers, then its length and its indexes are read in any order.         *)
(***************************************************************************)
MaxCLBs == 2          \* CLB rows in an answer of the clbmap stream

CLBCatalogs ==
    {CatalogHeader \o "clbmap\tCLB map\ttxt\t-\tdetoid,upi,domid\n",
     CatalogHeader \o "runs\tRuns\ttxt\tdetid\trun\n"}

CLBHeader == "DETOID\tUPI\tDOMID\tDU\tFLOOR\n"

\* two CLBs of DU 3 (floors 0 and 1), the base of DU 4, and a row that
\* repeats a UPI
CLBRows ==
    {"D1\tu1\t101\t3\t0\n", "D1\tu2\t102\t3\t1\n", "D1\tu3\t103\t4\t0\n",
     "D1\tu1\t104\t4\t1\n"}

RECURSIVE CLBTexts(_)
CLBTexts(n) ==
    IF n = 0 THEN {CLBHeader}
    ELSE CLBTexts(n - 1) \cup {b \o r : b \in CLBTexts(n - 1), r \in CLBRows}

CLBBodies ==
    CLBTexts(MaxCLBs) \cup {"", "ERROR: no such detector", "DET_OID\tUPI\tDOM_ID\nD1\tu1\t101\n"}

CLBOutcomes == {o \in OpenOutcomes(CLBBodies) : o.kind \in {"HTTPError", "ok"}}

DetOids == {"D1"}

DUs == {IntV(3), IntV(4), Str("3")}

\* clbmap = CLBMap(det_oid), the first call of the process
ConstructCLB ==
    /\ clb.state = "none"
    /\ last = NoCall
    /\ \E det_oid \in DetOids, o1 \in {o \in OpenOutcomes(CLBCatalogs) : o.kind = "ok"},
          o2 \in CLBOutcomes :
          \E r \in {CLBMap_init(det_oid, o1, o2)} :
              /\ clb' = IF r.raised = "none" THEN r.obj ELSE clb
              /\ last' = [op |-> "CLBMap", db |-> 0, arg |-> <<Str(det_oid), o1, o2>>,
                          ret |-> None, raised |-> r.raised, ev |-> r.ev]
    /\ UNCHANGED <<env, _session_cookie, sds>>

\* one operation on the constructed map
CLBOp(name, arg, r) ==
    /\ clb' = r.obj
    /\ last' = [op |-> name, db |-> 0, arg |-> arg,
                ret |-> r.ret, raised |-> r.raised, ev |-> <<>>]
    /\ UNCHANGED <<env, _session_cookie, sds>>

\* len(clbmap)
CLBLen == clb.state = "ok" /\ \E r \in {CLBMap_len(clb)} : CLBOp("len", <<>>, r)

\* clbmap.upis
Upis == clb.state = "ok" /\ \E r \in {upis(clb)} : CLBOp("upis", <<>>, r)

\* clbmap.dom_ids
DomIds == clb.state = "ok" /\ \E r \in {dom_ids(clb)} : CLBOp("dom_ids", <<>>, r)

\* clbmap.omkeys
Omkeys == clb.state = "ok" /\ \E r \in {omkeys(clb)} : CLBOp("omkeys", <<>>, r)

\* clbmap.base(du)
Base == clb.state = "ok" /\ \E du \in DUs : \E r \in {base(clb, du)} : CLBOp("base", <<du>>, r)

NextCLB ==
    \/ ConstructCLB
    \/ CLBLen
    \/ Upis
    \/ DomIds
    \/ Omkeys
    \/ Base

SpecCLB == InitStreams /\ [][NextCLB]_vars

(***************************************************************************)
(* Vocabulary of the catalog claims.                                       *)
(***************************************************************************)
\* the stream names of a listing, in the order the server lists them: the
\* STREAM column of every non-empty line after the header
ListedSeq(listing) ==
    LET lines == Split(listing, "\n")
        header == SplitWS(lines[1])
        col == CHOOSE i \in 1..Len(header) : Lower(header[i]) = "stream"
        rows == SelectSeq(Tail(lines), NonEmpty)
    IN  [k \in 1..Len(rows) |-> Split(rows[k], "\t")[col]]

ListedNames(listing) == LET l == ListedSeq(listing) IN {l[k] : k \in 1..Len(l)}

\* the names a StreamDS object has without any catalog
OwnAttributes ==
    StreamDSProperties \cup StreamDSMethods \cup {"_db", "_streams", "_default_container"}

\* the gateway result of a query is None, empty, or starts with "ERROR"
NoData(o) ==
    \/ o.kind = "HTTPError"
    \/ o.kind = "ok" /\ (o.body = "" \/ StartsWith(o.body, "ERROR"))

(***************************************************************************)
(* C7: whenever the gateway result is None or empty, or text beginning     *)
(* with "ERROR", StreamDS.get returns None without raising and logs an     *)
(* error of its own, whatever the container of the call and the default    *)
(* container of the object; nothing is decoded.                            *)
(***************************************************************************)
C7_NoDataReturnsNone ==
    (last.op = "sds.get" /\ NoData(last.arg[3]))
    => /\ last.raised = "none"
       /\ last.ret = None
       /\ \E x \in Events(last.ev) :
             \/ StartsWith(x, "log.error:No data found")
             \/ StartsWith(x, "log.error:ERROR")

\* an "ERROR" body asked for as records, on an object whose default
\* container is the frame
C7_Witness ==
    /\ last.op = "sds.get"
    /\ last.arg[3].kind = "ok"
    /\ StartsWith(last.arg[3].body, "ERROR")
    /\ last.arg[2] = Str("nt")
    /\ sds._default_container = Str("pd")
    /\ last.ret = None

(***************************************************************************)
(* C8 (as claimed): on a constructed StreamDS, for every name N, sds.N is  *)
(* a callable bound to stream N if the listing names N, and raises         *)
(* AttributeError if it does not.                                          *)
(***************************************************************************)
C8_AttributePerListedName ==
    (sds.state = "ok" /\ last.op = "getattr")
    => LET n == last.arg[1].v
       IN  IF n \in ListedNames(sds.listing)
           THEN last.raised = "none" /\ last.ret.t = "func" /\ last.ret.stream = n
           ELSE last.raised = "AttributeError"

(***************************************************************************)
(* C8 (amended): on a constructed StreamDS, for every name N that is not   *)
(* the name of an attribute the object has by itself (its methods, its     *)
(* property `streams`, its fields _db, _streams, _default_container), sds.N*)
(* is a callable bound to stream N if the listing names N, and raises      *)
(* AttributeError if it does not.                                          *)
(***************************************************************************)
C8_AttributePerStreamName ==
    (sds.state = "ok" /\ last.op = "getattr" /\ last.arg[1].v \notin OwnAttributes)
    => LET n == last.arg[1].v
       IN  IF n \in ListedNames(sds.listing)
           THEN last.raised = "none" /\ last.ret.t = "func" /\ last.ret.stream = n
           ELSE last.raised = "AttributeError"

\* a name the listing lacks was read on a catalog of three streams, and
\* raised
C8_Witness ==
    /\ sds.state = "ok"
    /\ Len(sds._streams) = 3
    /\ last.op = "getattr"
    /\ last.arg[1].v = "detectors"
    /\ last.raised = "AttributeError"

(***************************************************************************)
(* C9: whatever order the server lists the descriptors in, the keys of     *)
(* StreamDS.streams enumerate in strictly ascending order of stream name,  *)
(* they are exactly the listed names (each once), and each key maps to a   *)
(* descriptor of that name.                                                *)
(***************************************************************************)
C9_StreamsSortedUnique ==
    sds.state = "ok"
    => LET keys == DictKeys(sds._streams)
       IN  /\ \A i \in 1..(Len(keys) - 1) : StrLess(keys[i].v, keys[i + 1].v)
           /\ {keys[i].v : i \in 1..Len(keys)} = ListedNames(sds.listing)
           /\ \A i \in 1..Len(keys) : Field(sds._streams[i][2], "stream") = keys[i]

\* a catalog of three streams that the server listed in descending order
C9_Witness ==
    /\ sds.state = "ok"
    /\ Len(sds._streams) = 3
    /\ ListedSeq(sds.listing) = <<"runs", "clbmap", "ahrs">>

\* the text of a record field names the number, or is the text, given
SameValue(field, x) == field.v = (IF x.t = "int" THEN ToString(x.n) ELSE x.v)

\* the record set holds a CLB of the given du on floor 0
IsBaseOf(rec, du) ==
    /\ HasField(rec, "du") /\ HasField(rec, "floor")
    /\ SameValue(Field(rec, "du"), du)
    /\ SameValue(Field(rec, "floor"), IntV(0))

(***************************************************************************)
(* C10: on a CLBMap whose records were decoded from text by the records    *)
(* container, base(du) returns the record whose du is the given du and     *)
(* whose floor is 0, whenever the record set holds such a record.          *)
(***************************************************************************)
C10_BaseReturnsFloorZero ==
    (/\ clb.state = "ok"
     /\ last.op = "base"
     /\ clb._data.t = "list"
     /\ \E i \in 1..Len(clb._data.v) : IsBaseOf(clb._data.v[i], last.arg[1]))
    => /\ last.raised = "none"
       /\ last.ret.t = "nt"
       /\ IsBaseOf(last.ret, last.arg[1])

\* base(3) on the CLBs of DU 3 on floors 0 and 1 raised KeyError
C10_BaseOfThreeRaises ==
    /\ clb.state = "ok"
    /\ clb._data.t = "list"
    /\ Len(clb._data.v) = 2
    /\ IsBaseOf(clb._data.v[1], IntV(3))
    /\ Field(clb._data.v[2], "du") = Str("3")
    /\ Field(clb._data.v[2], "floor") = Str("1")
    /\ last.op = "base"
    /\ last.arg = <<IntV(3)>>
    /\ last.raised = "KeyError"

(***************************************************************************)
(* Vocabulary of the index claims.                                         *)
(***************************************************************************)
\* the records a constructed CLBMap holds (none when the query gave None)
Records == IF clb.state = "ok" /\ clb._data.t = "list" THEN clb._data.v ELSE <<>>

\* the field a record carries its DOM id in: the column DOMID or DOM_ID
DomIdField(rec) == IF HasField(rec, "domid") THEN "domid" ELSE "dom_id"

\* index[getattr(r, f)] is r
RoundTrip(index, r, f) ==
    /\ HasField(r, f)
    /\ DictHas(index, Field(r, f))
    /\ DictGet(index, Field(r, f)) = r

(***************************************************************************)
(* C11: for every record r of the record set a CLBMap was built from,      *)
(* upis[r.upi] is r and dom_ids[<DOM id of r>] is r.                       *)
(***************************************************************************)
C11_IndexRoundTrip ==
    /\ (last.op = "upis" /\ clb._data.t = "list")
       => /\ last.raised = "none"
          /\ \A i \in 1..Len(Records) : RoundTrip(last.ret.v, Records[i], "upi")
    /\ (last.op = "dom_ids" /\ clb._data.t = "list")
       => /\ last.raised = "none"
          /\ \A i \in 1..Len(Records) :
                RoundTrip(last.ret.v, Records[i], DomIdField(Records[i]))

\* dom_ids was read on records that carry their DOM id in the field dom_id,
\* and raised
C11_DomIdsRaises ==
    /\ Len(Records) = 1
    /\ HasField(Records[1], "dom_id")
    /\ last.op = "dom_ids"
    /\ last.raised = "AttributeError"

\* the keys of an index are the values of field f over the records, and
\* each key leads to a record of the set with that value
KeysConsistent(index, recs, f) ==
    /\ \A i \in 1..Len(recs) : HasField(recs[i], f)
    /\ {index[k][1] : k \in 1..Len(index)} = {Field(recs[i], f) : i \in 1..Len(recs)}
    /\ \A k \in 1..Len(index) :
          \E i \in 1..Len(recs) : index[k][2] = recs[i] /\ Field(recs[i], f) = index[k][1]

(***************************************************************************)
(* C12: for every key k of upis, upis[k] is a record of the source set     *)
(* whose UPI is k; for every key k of dom_ids, dom_ids[k] is a record of   *)
(* the source set whose DOM id is k; and the keys of each index are        *)
(* exactly the values of that field over the source records.               *)
(***************************************************************************)
C12_IndexKeysConsistent ==
    /\ (last.op = "upis" /\ clb._data.t = "list")
       => /\ last.raised = "none"
          /\ KeysConsistent(last.ret.v, Records, "upi")
    /\ (last.op = "dom_ids" /\ clb._data.t = "list" /\ Len(Records) > 0)
       => /\ last.raised = "none"
          /\ KeysConsistent(last.ret.v, Records, DomIdField(Records[1]))

\* upis was built, consistent with the records, and dom_ids then raised on
\* the same records
C12_UpisBuiltDomIdsRaises ==
    /\ Len(Records) > 0
    /\ DictHas(clb._by, Str("upi"))
    /\ KeysConsistent(DictGet(clb._by, Str("upi")).v, Records, "upi")
    /\ ~DictHas(clb._by, Str("domid"))
    /\ last.op = "dom_ids"
    /\ last.raised = "AttributeError"

\* the call sent the login request
LoginAttempted(ev) == \E x \in Events(ev) : StartsWith(x, "urlopen:" \o _login_url)

\* the login response of environment e fails _cookie_sid_pattern
LoginRejected(e) ==
    e.loginBody.t = "str" /\ ~CookieSidMatch(Last(Split(e.loginBody.v, "sid=")))

(***************************************************************************)
(* C13: a read of session_cookie whose login response fails the token      *)
(* pattern logs the failure, returns None without raising and leaves the   *)
(* cache of the instance empty; and a read is served without resolution    *)
(* only from a cache that holds a token, so after a None result the next   *)
(* read resolves again.                                                    *)
(***************************************************************************)
C13_RejectedLoginNotCached ==
    /\ (last.op = "session_cookie" /\ LoginAttempted(last.ev) /\ LoginRejected(env))
       => /\ last.raised = "none"
          /\ last.ret = None
          /\ _session_cookie[last.db] = None
          /\ "log.critical" \in Events(last.ev)
    /\ (last.op = "session_cookie" /\ last.ev = <<>>) => _session_cookie[last.db].t = "str"
    /\ (last.op = "session_cookie" /\ last.raised = "none" /\ last.ret = None)
       => LoginAttempted(last.ev)

\* a rejected login on a host of the lyon network: the whitelist token was
\* set, then replaced by None
C13_Witness ==
    /\ last.op = "session_cookie"
    /\ "lyon" \in WhitelistedHosts(env)
    /\ LoginAttempted(last.ev)
    /\ LoginRejected(env)
    /\ last.ret = None
    /\ _session_cookie[last.db] = None

\* a name lookup of the lyon or jupyter check fails in environment e
DnsFails(e) == e.localIp.t = "raise" \/ e.refIp.t = "raise"

(***************************************************************************)
(* C14: a DNS failure during a whitelist check (lyon or jupyter, on the    *)
(* local host name or on the reference host name) is not fatal: the check  *)
(* of that network gives False, session_cookie does not raise because of   *)
(* it, and resolution goes on to the next check.                           *)
(***************************************************************************)
C14_DnsFailureNonFatal ==
    (Resolved /\ DnsFails(env))
    => /\ last.raised # "gaierror"
       /\ \A h \in {"lyon", "jupyter"} :
             LET w == on_whitelisted_host(h, env)
             IN  (w.raised # "none" \/ ~w.ret) => (w.raised = "none" /\ w.ret = FALSE)
       /\ "urlopen:https://ident.me" \in Events(last.ev)

\* the lookup of jupyter.km3net.de failed on a host whose own name
\* resolves, and the read of session_cookie raised
C14_ReferenceLookupRaises ==
    /\ last.op = "session_cookie"
    /\ env.localIp.t = "str"
    /\ env.refIp.t = "raise"
    /\ last.raised = "gaierror"
    /\ "urlopen:https://ident.me" \notin Events(last.ev)

(***************************************************************************)
(* C15: when the request for the catalog listing fails at HTTP level (the  *)
(* gateway returns its default None), constructing a StreamDS does not     *)
(* raise and gives a catalog with no streams.                              *)
(***************************************************************************)
C15_FailedListingGivesEmptyCatalog ==
    (last.op = "StreamDS" /\ last.arg[2].kind = "HTTPError")
    => /\ last.raised = "none"
       /\ sds.state = "ok"
       /\ Len(sds._streams) = 0

\* the listing request ended in an HTTP error and the construction raised
C15_ConstructionRaises ==
    /\ last.op = "StreamDS"
    /\ last.arg[2].kind = "HTTPError"
    /\ "log.error:HTTP error" \in Events(last.ev)
    /\ last.raised = "AttributeError"
    /\ sds.state = "none"

\* the names of the indexes kept in _by
IndexNames == {"upi", "domid", "omkey", "base"}

(***************************************************************************)
(* C16: over every sequence of reads of upis, dom_ids, omkeys and base on  *)
(* one CLBMap, an index that exists in _by is never built again, changed   *)
(* or removed by a later read of any index (so each index is built at most *)
(* once, on its first read), and the records are never modified.           *)
(***************************************************************************)
C16_IndexesNeverDisturbed ==
    [][clb.state = "ok"
          => /\ clb'.state = "ok"
             /\ clb'._data = clb._data
             /\ clb'.det_oid = clb.det_oid
             /\ \A k \in IndexNames :
                   DictHas(clb._by, Str(k))
                   => /\ DictHas(clb'._by, Str(k))
                      /\ DictGet(clb'._by, Str(k)) = DictGet(clb._by, Str(k))]_vars

\* all four indexes exist over two CLBs, the last of them built by base
C16_Witness ==
    /\ Len(Records) = 2
    /\ \A k \in IndexNames : DictHas(clb._by, Str(k))
    /\ Len(DictGet(clb._by, Str("domid")).v) = 2
    /\ Len(DictGet(clb._by, Str("omkey")).v) = 2
    /\ clb._by[Len(clb._by)][1] = Str("base")
    /\ last.op = "base"

\* the requests a call sent
Requests(ev) == {i \in 1..Len(ev) : StartsWith(ev[i], "open:")}

(***************************************************************************)
(* C17: a DBManager.get that ends in an HTTP error sends exactly one       *)
(* request, logs the error and returns the default; it runs no credential  *)
(* resolution (no whitelist check, no login) and leaves every cached token *)
(* as it was; and after any get, a token an instance holds stays the one   *)
(* returned by its later reads of session_cookie.                          *)
(***************************************************************************)
C17_NoRetryNoRefresh ==
    [][/\ (last'.op = "get" /\ last'.arg[3] = "HTTPError")
          => /\ Cardinality(Requests(last'.ev)) = 1
             /\ "log.error:HTTP error" \in Events(last'.ev)
             /\ last'.raised = "none"
             /\ last'.ret = last'.arg[2]
             /\ \A x \in Events(last'.ev) :
                   ~IsCredentialEvent(x) /\ ~StartsWith(x, "gethostbyname:")
                   /\ ~StartsWith(x, "urlopen:")
             /\ _session_cookie' = _session_cookie
       /\ (last.op = "get" /\ last.arg[3] = "HTTPError")
          => \A d \in DBs :
                _session_cookie[d].t = "str"
                => /\ _session_cookie'[d] = _session_cookie[d]
                   /\ (last'.op = "session_cookie" /\ last'.db = d)
                         => (last'.ret = _session_cookie[d] /\ last'.ev = <<>>)]_vars

\* a get ended in an HTTP error on an instance that holds a token
C17_Witness ==
    /\ last.op = "get"
    /\ last.arg[3] = "HTTPError"
    /\ _session_cookie[last.db].t = "str"
    /\ Cardinality(Requests(last.ev)) = 1
    /\ last.ret = last.arg[2]

(***************************************************************************)
(* C18: a stream name that the catalog does not list is a hard failure on  *)
(* both access paths: the attribute sds.<name> (read and called) and       *)
(* StreamDS.get(<name>, ...) each raise for such a name, instead of        *)
(* returning data or None.                                                 *)
(***************************************************************************)
C18_UnlistedNameRaises ==
    (/\ last.op \in {"sds.get", "sds.call"}
     /\ last.arg[1].v \notin ListedNames(sds.listing)
     /\ last.arg[1].v \notin OwnAttributes)
    => last.raised # "none"

\* StreamDS.get of a stream the catalog lacks sent the request and returned
\* the decoded answer
C18_GetOfUnlistedReturns ==
    /\ last.op = "sds.get"
    /\ last.arg[1].v \notin ListedNames(sds.listing)
    /\ Opened(last.ev)
    /\ last.raised = "none"
    /\ last.ret.t = "list"

\* the gateway result of a query is text with data in it
HasData(o) == o.kind = "ok" /\ ~NoData(o)

\* the latest call gave what decoding `body` of `stream` per container c
\* gives: the text itself for None, the records for "nt", the frame for "pd"
DecodedPer(c, stream, body) ==
    LET d == IF c = Str("nt") THEN tonamedtuples(Capitalize(stream), Str(body), FALSE)
             ELSE IF c = Str("pd") THEN topandas(Str(body))
             ELSE Returned(Str(body), <<>>)
    IN  last.ret = d.ret /\ last.raised = d.raised

(***************************************************************************)
(* C19 (as claimed): on a result that is neither empty nor an ERROR text,  *)
(* StreamDS.get with container=None returns the raw text unchanged,        *)
(* whatever default container the StreamDS was constructed with; with an   *)
(* explicit container the result is decoded per that container, whatever   *)
(* the default.                                                            *)
(***************************************************************************)
C19_NoneIsAlwaysRaw ==
    (last.op = "sds.get" /\ HasData(last.arg[3]))
    => DecodedPer(last.arg[2], last.arg[1].v, last.arg[3].body)

(***************************************************************************)
(* C19 (amended): on a result that is neither empty nor an ERROR text,     *)
(* StreamDS.get with container=None decodes per the default container the  *)
(* StreamDS was constructed with, and returns the raw text unchanged only  *)
(* when that default is None too; with an explicit container the result is *)
(* decoded per that container, whatever the default.                       *)
(***************************************************************************)
C19_NoneTakesInstanceDefault ==
    (last.op = "sds.get" /\ HasData(last.arg[3]))
    => DecodedPer(IF last.arg[2] = None THEN sds._default_container ELSE last.arg[2],
                  last.arg[1].v, last.arg[3].body)

\* a call with container=None on a StreamDS constructed with "nt" returned
\* records
C19_Witness ==
    /\ last.op = "sds.get"
    /\ HasData(last.arg[3])
    /\ last.arg[2] = None
    /\ sds._default_container = Str("nt")
    /\ last.raised = "none"
    /\ last.ret.t = "list"
    /\ Len(last.ret.v) = 1

\* the latest call is a query: StreamDS.get, or the callable of a listed
\* stream
IsQuery(l) ==
    \/ l.op = "sds.get"
    \/ l.op = "sds.call" /\ l.arg[1].v \in ListedNames(sds.listing)

(***************************************************************************)
(* C20: over every sequence of calls of stream callables and of            *)
(* StreamDS.get, the StreamDS (its streams mapping, its attributes, its    *)
(* default container) stays as construction left it, and each such call    *)
(* sends exactly one gateway request, whatever calls came before it, an    *)
(* identical one included: nothing is answered from a cache.               *)
(***************************************************************************)
C20_CatalogImmutableNoCache ==
    /\ [](IsQuery(last) => Cardinality(Requests(last.ev)) = 1)
    /\ [][sds.state = "ok" => sds' = sds]_vars

\* the callable of a listed stream returned records from one request
C20_Witness ==
    /\ sds.state = "ok"
    /\ Len(sds._streams) = 2
    /\ last.op = "sds.call"
    /\ last.arg[1] = Str("runs")
    /\ Cardinality(Requests(last.ev)) = 1
    /\ last.raised = "none"
    /\ last.ret.t = "list"

====
